---------------------------- MODULE Spec2Model ----------------------------
(***************************************************************************)
(* A model of the zebedee-rust client: the six endpoint operations of      *)
(* charges.rs and withdrawal_request.rs (send, read status, read body,     *)
(* status check, serde parse) and the validated OAuth payloads of          *)
(* login_with_zbd/types.rs.                                                *)
(*                                                                         *)
(* Strings whose characters or length matter (amounts, OAuth tokens, URLs) *)
(* are sequences of one-character strings; other strings are TLA+ strings. *)
(***************************************************************************)
EXTENDS Integers, Sequences, FiniteSets, TLC

VARIABLES
    client,   \* the ZebedeeClient the caller constructed (apikey, oauth)
    ops,      \* one record per caller slot: the invocation it is running
    form,     \* the OAuth payload under construction / validation
    verdict   \* the result of validate() on form

vars == <<client, ops, form, verdict>>

None == [t |-> "none"]

(***************************************************************************)
(* Bounds of the model.                                                    *)
(***************************************************************************)
\* concurrent invocations in SpecConc
NumOps == 2
\* lengths tried around a required field length: required-Slack .. required+Slack
Slack == 1

(***************************************************************************)
(* Program constants.                                                      *)
(***************************************************************************)
StatusOK == 200
DefaultExpiresIn == 300
IdLen == 36
VerifierLen == 43
GrantTypeMin == 1

(***************************************************************************)
(* Character strings.                                                      *)
(***************************************************************************)
Rep(c, n) == [i \in 1..n |-> c]

Digits == {"0", "1", "2", "3", "4", "5", "6", "7", "8", "9"}

\* the invariant the data model states for an amount: a decimal string,
\* never negative: digits, at most one decimal point, no sign
IsNonNegDecimal(s) ==
    /\ \E i \in 1..Len(s) : s[i] \in Digits
    /\ \A i \in 1..Len(s) : s[i] \in Digits \cup {"."}
    /\ Cardinality({i \in 1..Len(s) : s[i] = "."}) <= 1


(***************************************************************************)
(* JSON values (what serde_json reads). A string value records whether it  *)
(* is in RFC 3339 form, which is what DateTime<Utc> accepts.               *)
(***************************************************************************)
JBool(b) == [t |-> "bool", b |-> b]
JStr(s) == [t |-> "str", s |-> s, ts |-> FALSE]
JTime(s) == [t |-> "str", s |-> s, ts |-> TRUE]
JNull == [t |-> "null"]
JObj(o) == [t |-> "obj", o |-> o]
JArr(a) == [t |-> "arr", a |-> a]

\* a response body as text: JSON text, or text that is not JSON at all
JsonText(j) == [kind |-> "json", j |-> j]
RawText(s) == [kind |-> "raw", s |-> s]

(***************************************************************************)
(* Types deriving Deserialize: a struct is its fields in declaration       *)
(* order, each with its Rust name, its wire name (serde rename) and type.  *)
(***************************************************************************)
TBool == [t |-> "bool"]
TString == [t |-> "string"]
TDateTime == [t |-> "datetime"]
TOption(S) == [t |-> "option", of |-> S]
TVec(S) == [t |-> "vec", of |-> S]
TStruct(fs) == [t |-> "struct", fields |-> fs]
Fld(name, wire, ty) == [name |-> name, wire |-> wire, ty |-> ty]

ChargeInvoiceData ==
    TStruct(<< Fld("request", "request", TString), Fld("uri", "uri", TString) >>)

ChargesData ==
    TStruct(<< Fld("id", "id", TString),
               Fld("unit", "unit", TString),
               Fld("amount", "amount", TString),
               Fld("created_at", "createdAt", TDateTime),
               Fld("internal_id", "internalId", TString),
               Fld("callback_url", "callbackUrl", TString),
               Fld("description", "description", TString),
               Fld("expires_at", "expiresAt", TDateTime),
               Fld("confirmed_at", "confirmedAt", TOption(TDateTime)),
               Fld("status", "status", TString),
               Fld("invoice", "invoice", ChargeInvoiceData) >>)

AllChargesRes ==
    TStruct(<< Fld("success", "success", TBool),
               Fld("data", "data", TVec(ChargesData)),
               Fld("message", "message", TString) >>)

ChargesRes ==
    TStruct(<< Fld("success", "success", TBool),
               Fld("data", "data", ChargesData),
               Fld("message", "message", TString) >>)

InvoiceData ==
    TStruct(<< Fld("request", "request", TString),
               Fld("fast_request", "fastRequest", TString),
               Fld("uri", "uri", TString),
               Fld("fast_uri", "fastUri", TString) >>)

WithdrawalRequestsData ==
    TStruct(<< Fld("id", "id", TString),
               Fld("unit", "unit", TString),
               Fld("amount", "amount", TString),
               Fld("created_at", "createdAt", TDateTime),
               Fld("expires_at", "expiresAt", TDateTime),
               Fld("internal_id", "internalId", TString),
               Fld("description", "description", TString),
               Fld("callback_url", "callbackUrl", TString),
               Fld("status", "status", TString),
               Fld("invoice", "invoice", InvoiceData) >>)

\* mutant: the list-withdrawals envelope made uniform with the others
AllWithdrawalRequestsRes_WithSuccess ==
    TStruct(<< Fld("success", "success", TBool),
               Fld("message", "message", TString),
               Fld("data", "data", TVec(WithdrawalRequestsData)) >>)

AllWithdrawalRequestsRes ==
    TStruct(<< Fld("message", "message", TString),
               Fld("data", "data", TVec(WithdrawalRequestsData)) >>)

GetWithdrawalRequestsRes ==
    TStruct(<< Fld("data", "data", WithdrawalRequestsData),
               Fld("message", "message", TString) >>)

PostWithdrawalRequestsRes ==
    TStruct(<< Fld("success", "success", TBool),
               Fld("data", "data", WithdrawalRequestsData),
               Fld("message", "message", TString) >>)

(***************************************************************************)
(* serde's derived Deserialize. A struct is read from a JSON object by     *)
(* wire name: unknown keys are ignored, a missing key is an error unless   *)
(* the field is an Option (then None); or from a JSON array by position.   *)
(* JSON objects are unordered here, so of several errors the one reported  *)
(* is the first type error in declaration order, else the first missing    *)
(* field.                                                                  *)
(***************************************************************************)
DeOk(v) == [ok |-> TRUE, val |-> v]
DeErr(msg, at) == [ok |-> FALSE, err |-> [msg |-> msg, at |-> at]]

Min(S) == CHOOSE x \in S : \A y \in S : x <= y

RECURSIVE De(_, _)
De(S, j) ==
    CASE S.t = "bool" ->
            IF j.t = "bool" THEN DeOk(j.b) ELSE DeErr("invalid type", "a boolean")
      [] S.t = "string" ->
            IF j.t = "str" THEN DeOk(j.s) ELSE DeErr("invalid type", "a string")
      [] S.t = "datetime" ->
            IF j.t # "str" THEN DeErr("invalid type", "a formatted date and time string")
            ELSE IF j.ts THEN DeOk(j.s)
            ELSE DeErr("invalid value", "input contains invalid characters")
      [] S.t = "option" ->
            IF j.t = "null" THEN DeOk(None) ELSE De(S.of, j)
      [] S.t = "vec" ->
            IF j.t # "arr" THEN DeErr("invalid type", "a sequence")
            ELSE LET sub == [i \in 1..Len(j.a) |-> De(S.of, j.a[i])]
                     bad == {i \in 1..Len(j.a) : ~sub[i].ok}
                 IN  IF bad = {} THEN DeOk([i \in 1..Len(j.a) |-> sub[i].val])
                     ELSE sub[Min(bad)]
      [] S.t = "struct" ->
            LET fs == S.fields
                n == Len(fs)
                idx(name) == CHOOSE i \in 1..n : fs[i].name = name
            IN  IF j.t = "obj" THEN
                    LET has(i) == fs[i].wire \in DOMAIN j.o
                        sub == [i \in 1..n |->
                                  IF has(i) THEN De(fs[i].ty, j.o[fs[i].wire])
                                  ELSE IF fs[i].ty.t = "option" THEN DeOk(None)
                                  ELSE DeErr("missing field", fs[i].wire)]
                        bad == {i \in 1..n : ~sub[i].ok}
                        typeBad == {i \in bad : has(i)}
                    IN  IF bad = {}
                        THEN DeOk([name \in {fs[i].name : i \in 1..n} |-> sub[idx(name)].val])
                        ELSE IF typeBad # {} THEN sub[Min(typeBad)] ELSE sub[Min(bad)]
                ELSE IF j.t = "arr" THEN
                    IF Len(j.a) < n THEN DeErr("invalid length", "struct")
                    ELSE IF Len(j.a) > n THEN DeErr("trailing characters", "struct")
                    ELSE LET sub == [i \in 1..n |-> De(fs[i].ty, j.a[i])]
                             bad == {i \in 1..n : ~sub[i].ok}
                         IN  IF bad = {}
                             THEN DeOk([name \in {fs[i].name : i \in 1..n} |-> sub[idx(name)].val])
                             ELSE sub[Min(bad)]
                ELSE DeErr("invalid type", "struct")

\* serde_json::from_str::<T>(&resp_text)
from_str(T, text) ==
    IF text.kind = "json" THEN De(T, text.j)
    ELSE DeErr("expected value", "line 1 column 1")


(***************************************************************************)
(* Request payloads (Serialize) and their defaults.                        *)
(***************************************************************************)
ChargeDefault ==
    [expires_in |-> DefaultExpiresIn,
     amount |-> <<"0">>,
     description |-> "using zebedee rust sdk",
     internal_id |-> "",
     callback_url |-> ""]

WithdrawalReqestDefault ==
    [expires_in |-> DefaultExpiresIn,
     amount |-> <<"0">>,
     description |-> "using zebedee rust sdk",
     internal_id |-> "",
     callback_url |-> ""]

\* .json(&charge): the payload under its wire names
ToJson(payload) ==
    [expiresIn |-> payload.expires_in,
     amount |-> payload.amount,
     description |-> payload.description,
     internalId |-> payload.internal_id,
     callbackUrl |-> payload.callback_url]

(***************************************************************************)
(* The six endpoint operations: method, URL, envelope type, and whether    *)
(* the function is wrapped by #[tokio::main] (charges.rs) or is a plain    *)
(* async fn (withdrawal_request.rs).                                       *)
(***************************************************************************)
Endpoints ==
    {"create_charge", "get_charges", "get_charge",
     "create_withdrawal_request", "get_withdrawal_requests", "get_withdrawal_request"}

CreateOps == {"create_charge", "create_withdrawal_request"}
GetByIdOps == {"get_charge", "get_withdrawal_request"}

IsTokioMain(ep) == ep \in {"create_charge", "get_charges", "get_charge"}

MethodOf(ep) == IF ep \in CreateOps THEN "POST" ELSE "GET"

UrlOf(ep, arg) ==
    CASE ep \in {"create_charge", "get_charges"} -> <<"https://api.zebedee.io/v0/charges">>
      [] ep = "get_charge" -> <<"https://api.zebedee.io/v0/charges/", arg>>
      [] ep \in {"create_withdrawal_request", "get_withdrawal_requests"} ->
            <<"https://api.zebedee.io/v0/withdrawal-requests">>
      [] ep = "get_withdrawal_request" ->
            <<"https://api.zebedee.io/v0/withdrawal-requests/", arg>>

EnvelopeOf(ep) ==
    CASE ep = "create_charge" -> ChargesRes
      [] ep = "get_charges" -> AllChargesRes
      [] ep = "get_charge" -> ChargesRes
      [] ep = "create_withdrawal_request" -> PostWithdrawalRequestsRes
      [] ep = "get_withdrawal_requests" -> AllWithdrawalRequestsRes
      [] ep = "get_withdrawal_request" -> GetWithdrawalRequestsRes

\* mutant: the apikey header is not taken from the client
BuildRequest_NoKey(op) ==
    [method |-> MethodOf(op.ep),
     url |-> UrlOf(op.ep, op.arg),
     content_type |-> "application/json",
     apikey |-> "",
     json |-> IF op.ep \in CreateOps THEN ToJson(op.arg) ELSE None]

\* the request the builder chain produces (lines 75-81 of create_charge)
BuildRequest(op) ==
    [method |-> MethodOf(op.ep),
     url |-> UrlOf(op.ep, op.arg),
     content_type |-> "application/json",
     apikey |-> op.key,
     json |-> IF op.ep \in CreateOps THEN ToJson(op.arg) ELSE None]

(***************************************************************************)
(* Results. Every error is an anyhow::Error: either a reqwest::Error       *)
(* converted by `?`, or a message made by anyhow!(format string, args).    *)
(***************************************************************************)
Ok(v) == [tag |-> "Ok", val |-> v]
Err(tmpl, args) == [tag |-> "Err", tmpl |-> tmpl, args |-> args]

\* `?` on send() or text(): the reqwest::Error, with the step that failed
ReqwestErr(step) == Err("reqwest::Error", <<step>>)

\* mutant: a non-200 status turned into a reqwest::Error (error_for_status()?)
StatusErr_ErrorForStatus(op) == ReqwestErr("status")

StatusErr(op) ==
    CASE op.ep = "get_charge" ->
            Err("Error: status {}, message: {}, charge_id: {}, url: {}",
                <<op.status, op.text, op.arg, UrlOf(op.ep, op.arg)>>)
      [] op.ep = "get_withdrawal_request" ->
            Err("Error: status {}, message: {}, withdrawal_id: {}, url: {}",
                <<op.status, op.text, op.arg, UrlOf(op.ep, op.arg)>>)
      [] OTHER ->
            Err("Error: status {}, message: {}", <<op.status, op.text>>)

\* mutant: the parse failure reported with the status-error message
ParseErr_AsStatusErr(op, e) == StatusErr(op)

ParseErr(op, e) ==
    CASE op.ep = "get_charge" ->
            Err("Was given a good status, but something failed when parsing to json\nserde parse error: {}, \ntext from API: {}\nstatus code: {}\ncharge_id: {}\n url: {}",
                <<e, op.text, op.status, op.arg, UrlOf(op.ep, op.arg)>>)
      [] op.ep = "get_withdrawal_request" ->
            Err("Was given a good status, but something failed when parsing to json\nserde parse error: {}, \ntext from API: {}\nstatus code: {}\nwithdrawal_requests_id: {}\n url: {}",
                <<e, op.text, op.status, op.arg, UrlOf(op.ep, op.arg)>>)
      [] OTHER ->
            Err("Was given a good status, but something failed when parsing to json\nserde parse error: {}, \ntext from API: {}\n status code: {}",
                <<e, op.text, op.status>>)

\* mutant: any 2xx status taken as success (status.is_success())
StatusIsOk_Any2xx(status) == status \in 200..299

\* match status_code { StatusCode::OK => ..., s => return Err(..) }
StatusIsOk(status) == status = StatusOK

\* mutant: a parse failure swallowed, a default value returned as Ok
ParseResult_DefaultOnError(op) ==
    LET r == from_str(EnvelopeOf(op.ep), op.text)
    IN  IF r.ok THEN Ok(r.val) ELSE Ok(None)

\* lines 99-113: parse the text as the endpoint's envelope
ParseResult(op) ==
    LET r == from_str(EnvelopeOf(op.ep), op.text)
    IN  IF r.ok THEN Ok(r.val) ELSE ParseErr(op, r.err)

(***************************************************************************)
(* One invocation. pc: idle -> called -> inflight -> headers -> text ->    *)
(* parse -> returned, or called -> aborted.                                *)
(***************************************************************************)
Idle ==
    [pc |-> "idle", ep |-> "", ctx |-> "", arg |-> None, key |-> "",
     req |-> None, sent |-> 0, status |-> 0, text |-> None, result |-> None]

\* a #[tokio::main] function builds a runtime and block_on()s its body,
\* which panics on a thread that is already driving an async runtime
CanStartRuntime(op) == ~(IsTokioMain(op.ep) /\ op.ctx = "async")

ArgsOf(ep, in) ==
    CASE ep = "create_charge" -> in.charges
      [] ep = "create_withdrawal_request" -> in.withdrawals
      [] ep \in GetByIdOps -> in.ids
      [] OTHER -> {None}

CtxsOf(ep, in) == IF IsTokioMain(ep) THEN in.ctxs ELSE {"async"}

\* the caller invokes an operation with (a clone of) the client
Call(p, in) ==
    /\ ops[p].pc = "idle"
    /\ \E ep \in in.eps : \E ctx \in CtxsOf(ep, in) : \E arg \in ArgsOf(ep, in) :
          ops' = [ops EXCEPT ![p] =
                    [Idle EXCEPT !.pc = "called", !.ep = ep, !.ctx = ctx,
                                 !.arg = arg, !.key = client.apikey]]
    /\ UNCHANGED <<client, form, verdict>>

\* #[tokio::main] inside a running runtime: the thread panics
Abort(p) ==
    /\ ops[p].pc = "called"
    /\ ~CanStartRuntime(ops[p])
    /\ ops' = [ops EXCEPT ![p].pc = "aborted"]
    /\ UNCHANGED <<client, form, verdict>>

\* .post(..)/.get(..) .header(..) [.json(..)] .send()
Send(p) ==
    /\ ops[p].pc = "called"
    /\ CanStartRuntime(ops[p])
    /\ ops' = [ops EXCEPT ![p].pc = "inflight",
                          ![p].req = BuildRequest(ops[p]),
                          ![p].sent = @ + 1]
    /\ UNCHANGED <<client, form, verdict>>

\* send().await? fails: connection refused, timeout, DNS failure
SendFail(p) ==
    /\ ops[p].pc = "inflight"
    /\ ops' = [ops EXCEPT ![p].pc = "returned", ![p].result = ReqwestErr("send")]
    /\ UNCHANGED <<client, form, verdict>>

\* send().await succeeds: the status line and headers are in; resp.status()
RecvHeaders(p, in) ==
    /\ ops[p].pc = "inflight"
    /\ \E s \in in.statuses :
          ops' = [ops EXCEPT ![p].pc = "headers", ![p].status = s]
    /\ UNCHANGED <<client, form, verdict>>

\* resp.text().await succeeds
ReadBody(p, in) ==
    /\ ops[p].pc = "headers"
    /\ \E i \in 1..Len(in.bodies) :
          ops' = [ops EXCEPT ![p].pc = "text", ![p].text = in.bodies[i]]
    /\ UNCHANGED <<client, form, verdict>>

\* resp.text().await? fails: the connection breaks while the body is read
ReadBodyFail(p) ==
    /\ ops[p].pc = "headers"
    /\ ops' = [ops EXCEPT ![p].pc = "returned", ![p].result = ReqwestErr("text")]
    /\ UNCHANGED <<client, form, verdict>>

\* match status_code
CheckStatus(p) ==
    /\ ops[p].pc = "text"
    /\ IF StatusIsOk(ops[p].status)
       THEN ops' = [ops EXCEPT ![p].pc = "parse"]
       ELSE ops' = [ops EXCEPT ![p].pc = "returned", ![p].result = StatusErr(ops[p])]
    /\ UNCHANGED <<client, form, verdict>>

\* serde_json::from_str and the match on its result
Parse(p) ==
    /\ ops[p].pc = "parse"
    /\ ops' = [ops EXCEPT ![p].pc = "returned", ![p].result = ParseResult(ops[p])]
    /\ UNCHANGED <<client, form, verdict>>

\* the caller takes the result (or the panic unwinds) and the slot is free
Finish(p) ==
    /\ ops[p].pc \in {"returned", "aborted"}
    /\ ops' = [ops EXCEPT ![p] = Idle]
    /\ UNCHANGED <<client, form, verdict>>

(***************************************************************************)
(* Inputs.                                                                 *)
(***************************************************************************)
Timestamp == "2022-08-01T10:00:00.000Z"

ChargeJson(id) ==
    JObj([id |-> JStr(id), unit |-> JStr("msats"), amount |-> JStr("1000"),
          createdAt |-> JTime(Timestamp), internalId |-> JStr(""),
          callbackUrl |-> JStr(""), description |-> JStr("using zebedee rust sdk"),
          expiresAt |-> JTime(Timestamp), confirmedAt |-> JNull,
          status |-> JStr("pending"),
          invoice |-> JObj([request |-> JStr("lnbc10n1"), uri |-> JStr("lightning:lnbc10n1")])])

WithdrawalJson(id) ==
    JObj([id |-> JStr(id), unit |-> JStr("msats"), amount |-> JStr("10000"),
          createdAt |-> JTime(Timestamp), expiresAt |-> JTime(Timestamp),
          internalId |-> JStr(""), description |-> JStr("using zebedee rust sdk"),
          callbackUrl |-> JStr(""), status |-> JStr("pending"),
          invoice |-> JObj([request |-> JStr("lnurl1"), fastRequest |-> JStr("lnurl1f"),
                            uri |-> JStr("lightning:lnurl1"),
                            fastUri |-> JStr("lightning:lnurl1f")])])

\* a charge whose createdAt is not a timestamp
BadChargeJson ==
    JObj([ChargeJson("abc123").o EXCEPT !.createdAt = JStr("yesterday")])

Bodies ==
    << RawText("unauthorized"),
       JsonText(JStr("unauthorized")),
       JsonText(JObj([success |-> JBool(TRUE), data |-> ChargeJson("abc123"),
                      message |-> JStr("Success")])),
       JsonText(JObj([success |-> JBool(FALSE), data |-> ChargeJson("abc123"),
                      message |-> JStr("Charge expired")])),
       JsonText(JObj([success |-> JBool(TRUE), message |-> JStr("Success")])),
       JsonText(JObj([success |-> JStr("true"), data |-> ChargeJson("abc123"),
                      message |-> JStr("Success")])),
       JsonText(JObj([success |-> JBool(TRUE), data |-> BadChargeJson,
                      message |-> JStr("Success")])),
       JsonText(JObj([success |-> JBool(TRUE), data |-> JArr(<<ChargeJson("abc123")>>),
                      message |-> JStr("Success")])),
       JsonText(JObj([success |-> JBool(TRUE), data |-> WithdrawalJson("w1"),
                      message |-> JStr("Success")])),
       JsonText(JObj([data |-> WithdrawalJson("w1"), message |-> JStr("Success")])),
       JsonText(JObj([message |-> JStr("Successfully fetched"),
                      data |-> JArr(<<WithdrawalJson("w1"), WithdrawalJson("w2")>>)])),
       JsonText(JObj([message |-> JStr("Successfully fetched"), data |-> JArr(<< >>)])),
       JsonText(JObj([success |-> JBool(TRUE), message |-> JStr("Success"),
                      data |-> JArr(<<WithdrawalJson("w1")>>)])),
       JsonText(JArr(<<JBool(TRUE), ChargeJson("abc123"), JStr("Success")>>)) >>

Amounts == { <<"0">>, <<"1", "0", "0", "0">>, <<"-", "1">>, <<"1", ".", "5">> }

FullInputs ==
    [eps |-> Endpoints,
     ctxs |-> {"sync", "async"},
     charges |-> {[ChargeDefault EXCEPT !.amount = a] : a \in Amounts},
     withdrawals |-> {[WithdrawalReqestDefault EXCEPT !.amount = a] : a \in Amounts},
     ids |-> {"abc123", "w1"},
     statuses |-> {200, 201, 401, 500},
     bodies |-> Bodies]

\* Spec: one caller thread, invoking one operation after another
Caller == {1}

ApiKeys == {"key-A", "key-B"}

NoOAuth == [client_id |-> << >>, secret |-> << >>, redirect_uri |-> << >>]

Init ==
    /\ client \in {[apikey |-> k, oauth |-> NoOAuth] : k \in ApiKeys}
    /\ ops = [p \in Caller |-> Idle]
    /\ form = None
    /\ verdict = None

Next ==
    \E p \in Caller :
        \/ Call(p, FullInputs)
        \/ Abort(p)
        \/ Send(p)
        \/ SendFail(p)
        \/ RecvHeaders(p, FullInputs)
        \/ ReadBody(p, FullInputs)
        \/ ReadBodyFail(p)
        \/ CheckStatus(p)
        \/ Parse(p)
        \/ Finish(p)

Spec == Init /\ [][Next]_vars


(***************************************************************************)
(* OAuth payloads (login_with_zbd/types.rs) and their derived validate().  *)
(***************************************************************************)
Letters == {"a", "b", "c", "h", "p", "s", "t", "z"}

\* mutant: length(min = n) written for length(equal = n)
LengthEqual_AtLeast(s, n) == Len(s) >= n

\* #[validate(length(equal = n))]: the number of characters equals n
LengthEqual(s, n) == Len(s) = n

\* #[validate(length(min = n))]
LengthMin(s, n) == Len(s) >= n

\* #[validate(url)]: Url::parse succeeds: a scheme of letters, then ":",
\* then something that is not only slashes
ValidateUrl(s) ==
    \E i \in 2..Len(s) :
        /\ s[i] = ":"
        /\ \A j \in 1..(i - 1) : s[j] \in Letters
        /\ \E k \in (i + 1)..Len(s) : s[k] # "/"

\* String::from("authorization_code"), String::from("refresh_token")
AuthorizationCode ==
    <<"a", "u", "t", "h", "o", "r", "i", "z", "a", "t", "i", "o", "n", "_", "c", "o", "d", "e">>
RefreshToken ==
    <<"r", "e", "f", "r", "e", "s", "h", "_", "t", "o", "k", "e", "n">>

\* FetchTokenBody::new(&zc, code, code_verifier)
FetchTokenBodyNew(zc, code, code_verifier) ==
    [client_id |-> zc.oauth.client_id,
     client_secret |-> zc.oauth.secret,
     code |-> code,
     code_verifier |-> code_verifier,
     grant_type |-> AuthorizationCode,
     redirect_uri |-> zc.oauth.redirect_uri]

\* FetchRefresh::new(zc, refresh_token)
FetchRefreshNew(zc, refresh_token) ==
    [client_id |-> zc.oauth.client_id,
     client_secret |-> zc.oauth.secret,
     grant_type |-> RefreshToken,
     redirect_uri |-> zc.oauth.redirect_uri,
     refresh_token |-> refresh_token]

\* a ValidationErrors entry: the field and the rule it broke
Broken(field, rule, ok) == IF ok THEN {} ELSE {<<field, rule>>}

\* the fields validate() reports
FetchTokenBodyErrors(b) ==
    Broken("client_id", "length", LengthEqual(b.client_id, IdLen))
    \cup Broken("client_secret", "length", LengthEqual(b.client_secret, IdLen))
    \cup Broken("code", "length", LengthEqual(b.code, IdLen))
    \cup Broken("code_verifier", "length", LengthEqual(b.code_verifier, VerifierLen))
    \cup Broken("grant_type", "length", LengthMin(b.grant_type, GrantTypeMin))
    \cup Broken("redirect_uri", "url", ValidateUrl(b.redirect_uri))

FetchRefreshErrors(b) ==
    Broken("client_id", "length", LengthEqual(b.client_id, IdLen))
    \cup Broken("client_secret", "length", LengthEqual(b.client_secret, IdLen))
    \cup Broken("refresh_token", "length", LengthEqual(b.refresh_token, IdLen))
    \cup Broken("grant_type", "length", LengthMin(b.grant_type, GrantTypeMin))
    \cup Broken("redirect_uri", "url", ValidateUrl(b.redirect_uri))

\* validate(): Ok(()) when no field breaks its rule, else Err(ValidationErrors)
Validate(f) ==
    LET errs == IF f.ty = "FetchTokenBody" THEN FetchTokenBodyErrors(f.v)
                ELSE FetchRefreshErrors(f.v)
    IN  IF errs = {} THEN [tag |-> "Ok", errors |-> {}]
        ELSE [tag |-> "Err", errors |-> errs]

\* character strings around a required length n, in two alphabets
Tokens(n) ==
    {Rep(c, k) : c \in {"a", "-"}, k \in (n - Slack)..(n + Slack)} \cup {<< >>}

RedirectUris ==
    { <<"h", "t", "t", "p", "s", ":", "/", "/", "a", ".", "z">>,
      <<"a", ".", "z", "/", "c", "b">> }

OAuthConfigs ==
    {[client_id |-> i, secret |-> x, redirect_uri |-> u] :
        i \in Tokens(IdLen), x \in Tokens(IdLen), u \in RedirectUris}

NewFetchTokenBody ==
    /\ form = None
    /\ \E code \in Tokens(IdLen) : \E code_verifier \in Tokens(VerifierLen) :
          form' = [ty |-> "FetchTokenBody",
                   v |-> FetchTokenBodyNew(client, code, code_verifier)]
    /\ UNCHANGED <<client, ops, verdict>>

NewFetchRefresh ==
    /\ form = None
    /\ \E refresh_token \in Tokens(IdLen) :
          form' = [ty |-> "FetchRefresh", v |-> FetchRefreshNew(client, refresh_token)]
    /\ UNCHANGED <<client, ops, verdict>>

\* grant_type is a pub field: the caller may overwrite it before validating
SetGrantType ==
    /\ form # None
    /\ verdict = None
    /\ form.v.grant_type # << >>
    /\ form' = [form EXCEPT !.v.grant_type = << >>]
    /\ UNCHANGED <<client, ops, verdict>>

CallValidate ==
    /\ form # None
    /\ verdict = None
    /\ verdict' = Validate(form)
    /\ UNCHANGED <<client, ops, form>>

DropForm ==
    /\ verdict # None
    /\ form' = None
    /\ verdict' = None
    /\ UNCHANGED <<client, ops>>

InitOAuth ==
    /\ client \in {[apikey |-> "key-A", oauth |-> o] : o \in OAuthConfigs}
    /\ ops = [p \in Caller |-> Idle]
    /\ form = None
    /\ verdict = None

NextOAuth ==
    \/ NewFetchTokenBody
    \/ NewFetchRefresh
    \/ SetGrantType
    \/ CallValidate
    \/ DropForm

SpecOAuth == InitOAuth /\ [][NextOAuth]_vars


(***************************************************************************)
(* Concurrent use: NumOps invocations in flight at once, each on a clone   *)
(* of the same client, their steps interleaved in any order.               *)
(***************************************************************************)
ConcInputs ==
    [eps |-> {"get_charge", "create_withdrawal_request", "get_withdrawal_request"},
     ctxs |-> {"sync", "async"},
     charges |-> {ChargeDefault},
     withdrawals |-> {[WithdrawalReqestDefault EXCEPT !.amount = <<"1", "0", "0", "0", "0">>]},
     ids |-> {"abc123"},
     statuses |-> {200, 401},
     bodies |-> << RawText("unauthorized"), Bodies[9] >>]

InitConc ==
    /\ client \in {[apikey |-> k, oauth |-> NoOAuth] : k \in ApiKeys}
    /\ ops = [p \in 1..NumOps |-> Idle]
    /\ form = None
    /\ verdict = None

NextConc ==
    \E p \in 1..NumOps :
        \/ Call(p, ConcInputs)
        \/ Abort(p)
        \/ Send(p)
        \/ SendFail(p)
        \/ RecvHeaders(p, ConcInputs)
        \/ ReadBody(p, ConcInputs)
        \/ ReadBodyFail(p)
        \/ CheckStatus(p)
        \/ Parse(p)
        \/ Finish(p)

SpecConc == InitConc /\ [][NextConc]_vars


(***************************************************************************)
(* The error taxonomy, read off the anyhow messages the code builds.       *)
(***************************************************************************)
RejectTemplates ==
    {"Error: status {}, message: {}",
     "Error: status {}, message: {}, charge_id: {}, url: {}",
     "Error: status {}, message: {}, withdrawal_id: {}, url: {}"}

ParseTemplates ==
    {"Was given a good status, but something failed when parsing to json\nserde parse error: {}, \ntext from API: {}\n status code: {}",
     "Was given a good status, but something failed when parsing to json\nserde parse error: {}, \ntext from API: {}\nstatus code: {}\ncharge_id: {}\n url: {}",
     "Was given a good status, but something failed when parsing to json\nserde parse error: {}, \ntext from API: {}\nstatus code: {}\nwithdrawal_requests_id: {}\n url: {}"}

IsOk(r) == r.tag = "Ok"
IsServerRejected(r) == r.tag = "Err" /\ r.tmpl \in RejectTemplates
IsTransportError(r) == r.tag = "Err" /\ r.tmpl = "reqwest::Error"
IsValidationError(r) == r.tag = "Err" /\ r.tmpl = "ValidationErrors"
IsUnexpectedSchema(r) == r.tag = "Err" /\ r.tmpl \in ParseTemplates

\* the whole response (status line, then body text) has been received
GotStatus(o) == o.status # 0
GotBody(o) == o.text # None
Returned(o) == o.pc = "returned"

(***************************************************************************)
(* C1. In every endpoint operation, once a response with a status other    *)
(* than 200 (201 included) has been received, the operation never reaches  *)
(* the parse step and returns the ServerRejected error whose arguments are *)
(* that status and that body text, unchanged: never Ok, never              *)
(* UnexpectedSchema, also when the body parses as the endpoint's envelope. *)
(***************************************************************************)
C1_NonOkStatusIsServerRejected ==
    \A p \in DOMAIN ops :
        LET o == ops[p]
        IN  (GotBody(o) /\ o.status # StatusOK) =>
                /\ o.pc \in {"text", "returned"}
                /\ Returned(o) =>
                      /\ IsServerRejected(o.result)
                      /\ o.result.args[1] = o.status
                      /\ o.result.args[2] = o.text
                      /\ ~IsOk(o.result)
                      /\ ~IsUnexpectedSchema(o.result)

\* a 201 whose body is a well-formed envelope is reported as ServerRejected
C1_Witness ==
    \E p \in DOMAIN ops :
        LET o == ops[p]
        IN  /\ Returned(o) /\ GotBody(o)
            /\ o.status = 201
            /\ from_str(EnvelopeOf(o.ep), o.text).ok
            /\ IsServerRejected(o.result)

(***************************************************************************)
(* C2. In every endpoint operation, a 200 response whose body does not     *)
(* deserialize as the endpoint's envelope returns the UnexpectedSchema     *)
(* error, whose arguments are the serde error, the body text and the       *)
(* status; its message is none of the ServerRejected messages.             *)
(***************************************************************************)
C2_BadBodyIsUnexpectedSchema ==
    \A p \in DOMAIN ops :
        LET o == ops[p]
            r == from_str(EnvelopeOf(o.ep), o.text)
        IN  (Returned(o) /\ GotBody(o) /\ o.status = StatusOK /\ ~r.ok) =>
                /\ IsUnexpectedSchema(o.result)
                /\ o.result.tmpl \notin RejectTemplates
                /\ o.result.args[1] = r.err
                /\ o.result.args[2] = o.text
                /\ o.result.args[3] = o.status

\* a 200 whose JSON body has no data field
C2_Witness ==
    \E p \in DOMAIN ops :
        LET o == ops[p]
        IN  /\ Returned(o) /\ GotBody(o)
            /\ o.status = StatusOK
            /\ o.text.kind = "json" /\ o.text.j.t = "obj"
            /\ "data" \notin DOMAIN o.text.j.o
            /\ IsUnexpectedSchema(o.result)
            /\ o.result.args[1] = [msg |-> "missing field", at |-> "data"]

(***************************************************************************)
(* C3. An endpoint operation returns Ok exactly when the status is 200 and *)
(* the body deserializes as the endpoint's envelope, and the value is the  *)
(* one read from that body: for an object body, message, success (where    *)
(* the envelope declares it) and the data's fields are the ones sent,      *)
(* under their wire names.                                                 *)
(***************************************************************************)
SentData(j, v) ==
    /\ v.id = j.o.id.s
    /\ v.amount = j.o.amount.s
    /\ v.created_at = j.o.createdAt.s
    /\ v.expires_at = j.o.expiresAt.s
    /\ v.internal_id = j.o.internalId.s
    /\ v.callback_url = j.o.callbackUrl.s
    /\ v.invoice.request = j.o.invoice.o.request.s
    /\ v.invoice.uri = j.o.invoice.o.uri.s

C3_OkIffStatusOkAndSchema ==
    \A p \in DOMAIN ops :
        LET o == ops[p]
            r == from_str(EnvelopeOf(o.ep), o.text)
        IN  Returned(o) =>
                /\ IsOk(o.result) <=> (GotBody(o) /\ o.status = StatusOK /\ r.ok)
                /\ IsOk(o.result) =>
                      /\ o.result.val = r.val
                      /\ o.text.j.t = "obj" =>
                            LET sent == o.text.j.o
                                v == o.result.val
                            IN  /\ v.message = sent.message.s
                                /\ "success" \in DOMAIN v => v.success = sent.success.b
                                /\ IF sent.data.t = "arr"
                                   THEN /\ Len(v.data) = Len(sent.data.a)
                                        /\ \A i \in 1..Len(v.data) :
                                              SentData(sent.data.a[i], v.data[i])
                                   ELSE SentData(sent.data, v.data)

\* create_charge answered 200 with {"success":true,"data":{"id":"abc123",..},..}
C3_Witness ==
    \E p \in DOMAIN ops :
        LET o == ops[p]
        IN  /\ Returned(o)
            /\ o.ep = "create_charge"
            /\ o.arg.amount = <<"1", "0", "0", "0">>
            /\ IsOk(o.result)
            /\ o.result.val.success = TRUE
            /\ o.result.val.data.id = "abc123"
            /\ o.result.val.data.confirmed_at = None


(***************************************************************************)
(* C4. In create_charge and create_withdrawal_request a payload that       *)
(* breaks a declared constraint (its amount is not a non-negative decimal  *)
(* string) is never sent, and the operation returns a ValidationError.     *)
(***************************************************************************)
C4_InvalidPayloadNeverSent ==
    \A p \in DOMAIN ops :
        LET o == ops[p]
        IN  (o.ep \in CreateOps /\ ~IsNonNegDecimal(o.arg.amount)) =>
                /\ o.sent = 0
                /\ Returned(o) => IsValidationError(o.result)

(***************************************************************************)
(* C5. validate() on FetchTokenBody and FetchRefresh reports client_id and *)
(* client_secret exactly when their length is not 36, and code_verifier    *)
(* exactly when its length is not 43, whatever characters they hold and    *)
(* whatever the other fields hold; it returns Ok only if none is reported. *)
(***************************************************************************)
Reported(field) == \E e \in verdict.errors : e[1] = field

C5_FixedLengthExact ==
    (form # None /\ verdict # None) =>
        /\ Reported("client_id") <=> Len(form.v.client_id) # 36
        /\ Reported("client_secret") <=> Len(form.v.client_secret) # 36
        /\ form.ty = "FetchTokenBody" =>
              (Reported("code_verifier") <=> Len(form.v.code_verifier) # 43)
        /\ verdict.tag = "Ok" =>
              /\ Len(form.v.client_id) = 36
              /\ Len(form.v.client_secret) = 36
              /\ form.ty = "FetchTokenBody" => Len(form.v.code_verifier) = 43

\* a 37-character client_id is rejected while the 43-character verifier,
\* in another alphabet and beside an invalid redirect_uri, is accepted
C5_Witness ==
    /\ form # None /\ verdict # None
    /\ form.ty = "FetchTokenBody"
    /\ Len(form.v.client_id) = 37
    /\ form.v.code_verifier = Rep("-", 43)
    /\ Reported("client_id")
    /\ Reported("redirect_uri")
    /\ ~Reported("code_verifier")

(***************************************************************************)
(* C6. Every invocation of an endpoint operation, however it ends, has     *)
(* issued exactly one network request.                                     *)
(***************************************************************************)
C6_ExactlyOneRequest ==
    \A p \in DOMAIN ops :
        ops[p].pc \in {"returned", "aborted"} => ops[p].sent = 1

(***************************************************************************)
(* C7 as stated. Once a response status has been received, the operation's *)
(* outcome is never a TransportError.                                      *)
(***************************************************************************)
C7_NoTransportErrorAfterStatus ==
    \A p \in DOMAIN ops :
        (Returned(ops[p]) /\ GotStatus(ops[p])) => ~IsTransportError(ops[p].result)

(***************************************************************************)
(* C7 as amended. An operation returns a TransportError exactly when       *)
(* send() failed or reading the body failed: once the status and the body  *)
(* text have both been received the outcome is never a TransportError,     *)
(* whatever the status; a body that cannot be read is a TransportError     *)
(* even though the status is already known.                                *)
(***************************************************************************)
C7_TransportErrorIffNoBody ==
    \A p \in DOMAIN ops :
        Returned(ops[p]) => (IsTransportError(ops[p].result) <=> ~GotBody(ops[p]))

\* the status 500 was received, then reading the body failed
C7_Witness ==
    \E p \in DOMAIN ops :
        /\ Returned(ops[p])
        /\ ops[p].status = 500
        /\ ~GotBody(ops[p])
        /\ IsTransportError(ops[p].result)
        /\ ops[p].result.args = <<"text">>


(***************************************************************************)
(* C8. With several invocations in flight on clones of one client, in any  *)
(* interleaving of their steps: the client never changes; every request    *)
(* sent carries the client's API key; every returned result is the one     *)
(* the operation's own response determines (what it returns running        *)
(* alone), so two invocations with the same arguments and the same         *)
(* response return the same result whatever the others did.                *)
(***************************************************************************)
\* what an invocation returns for its own response when nothing else runs
AloneResult(o) ==
    IF ~GotStatus(o) THEN ReqwestErr("send")
    ELSE IF ~GotBody(o) THEN ReqwestErr("text")
    ELSE IF o.status # 200 THEN StatusErr(o)
    ELSE ParseResult(o)

SameCall(a, b) ==
    /\ a.ep = b.ep /\ a.ctx = b.ctx /\ a.arg = b.arg
    /\ a.status = b.status /\ a.text = b.text

C8_Isolated ==
    \A p \in DOMAIN ops :
        /\ ops[p].pc # "idle" => ops[p].key = client.apikey
        /\ ops[p].sent > 0 => ops[p].req.apikey = client.apikey
        /\ Returned(ops[p]) =>
              /\ ops[p].result = AloneResult(ops[p])
              /\ \A q \in DOMAIN ops :
                    (Returned(ops[q]) /\ SameCall(ops[p], ops[q])) =>
                        ops[q].result = ops[p].result

C8_ConcurrentIndependence == [][client' = client]_vars /\ []C8_Isolated

\* two invocations returned side by side, one Ok and one ServerRejected
C8_Witness ==
    \E p, q \in DOMAIN ops :
        /\ p # q
        /\ Returned(ops[p]) /\ Returned(ops[q])
        /\ ops[p].req.apikey = ops[q].req.apikey
        /\ IsOk(ops[p].result)
        /\ IsServerRejected(ops[q].result)

(***************************************************************************)
(* C9. get_withdrawal_requests returns Ok for a 200 whose JSON object body *)
(* has a string message and a list of well-formed withdrawal requests and  *)
(* no success key; create_charge, get_charges, get_charge and              *)
(* create_withdrawal_request never return Ok for a body without success.   *)
(***************************************************************************)
DeclareSuccess ==
    {"create_charge", "get_charges", "get_charge", "create_withdrawal_request"}

NoSuccessKey(text) ==
    text.kind = "json" /\ text.j.t = "obj" /\ "success" \notin DOMAIN text.j.o

WithdrawalList(text) ==
    /\ DOMAIN text.j.o = {"message", "data"}
    /\ text.j.o.message.t = "str"
    /\ text.j.o.data.t = "arr"
    /\ \A i \in 1..Len(text.j.o.data.a) :
          De(WithdrawalRequestsData, text.j.o.data.a[i]).ok

C9_SuccessOptionalOnlyOnList ==
    \A p \in DOMAIN ops :
        LET o == ops[p]
        IN  (Returned(o) /\ GotBody(o) /\ o.status = StatusOK /\ NoSuccessKey(o.text)) =>
                /\ (o.ep = "get_withdrawal_requests" /\ WithdrawalList(o.text)) =>
                      /\ IsOk(o.result)
                      /\ Len(o.result.val.data) = Len(o.text.j.o.data.a)
                /\ o.ep \in DeclareSuccess => IsUnexpectedSchema(o.result)

\* the list of two withdrawals, sent without success, is returned as Ok
C9_Witness ==
    \E p \in DOMAIN ops :
        LET o == ops[p]
        IN  /\ Returned(o)
            /\ o.ep = "get_withdrawal_requests"
            /\ o.status = StatusOK
            /\ GotBody(o)
            /\ NoSuccessKey(o.text)
            /\ IsOk(o.result)
            /\ Len(o.result.val.data) = 2
            /\ o.result.val.message = "Successfully fetched"

(***************************************************************************)
(* C10. The amount of every charge or withdrawal creation payload that     *)
(* has been sent is a decimal string that is not negative.                 *)
(***************************************************************************)
C10_SentAmountNonNegative ==
    \A p \in DOMAIN ops :
        (ops[p].ep \in CreateOps /\ ops[p].sent > 0) =>
            IsNonNegDecimal(ops[p].req.json.amount)


(***************************************************************************)
(* C11. Every invocation of an endpoint operation, from a synchronous or   *)
(* an async caller, ends by returning one ordinary result (Ok, or the      *)
(* error of the first step that failed): no invocation ends in a panic,    *)
(* a returned invocation holds its result, and no result exists before     *)
(* the invocation has returned.                                            *)
(***************************************************************************)
C11_EndsWithOneResult ==
    \A p \in DOMAIN ops :
        /\ ops[p].pc # "aborted"
        /\ Returned(ops[p]) => ops[p].result.tag \in {"Ok", "Err"}
        /\ ~Returned(ops[p]) => ops[p].result = None

=============================================================================
